---- MODULE Spec2Model ----
(***************************************************************************)
(* A model of the nondeterministic Turing machine interpreter              *)
(* (src/interpreter.py) and of the two-tape to one-tape translator         *)
(* (src/translate.py).                                                     *)
(*                                                                         *)
(* A configuration is the tuple <<state, tape, head_pos>> of the source:   *)
(* tape is a sequence of letters and head_pos is 0-based as in the Python  *)
(* code, so the letter under the head is tape[head_pos + 1].               *)
(***************************************************************************)
EXTENDS Integers, Sequences, FiniteSets, TLC

VARIABLES
    transitions,             \* TuringMachine._transitions, as a set of 5-tuples
    tape,                    \* the input word handed to run()
    max_steps,               \* the step bound handed to run()
    current_configurations,  \* run(): the layer being drained
    next_configurations,     \* run(): the layer being built
    history,                 \* run(): every configuration handled so far
    steps,                   \* run(): the layer counter
    pc,                      \* run(): "outer", "inner" or "done"
    result,                  \* run(): the returned value once pc = "done"
    expanded,                \* ghost: configurations get_next_configurations was called on
    expanded_twice,          \* ghost: some configuration was expanded a second time
    TT_transitions,          \* translate.py: the two-tape table being translated
    ot_conf,                 \* the configuration of the translated machine
    macro,                   \* ghost: two-tape transitions the translated machine has chosen
    chosen,                  \* ghost: the two-tape entry carried by the last executeSecondHeadAction state
    phase_conf               \* ghost: the configuration in which the current head action began

vars == <<transitions, tape, max_steps, current_configurations, next_configurations,
          history, steps, pc, result, expanded, expanded_twice,
          TT_transitions, ot_conf, macro,
          chosen, phase_conf>>

(* The variables of run(), besides the input word. *)
ivars == <<transitions, max_steps, current_configurations, next_configurations,
           history, steps, pc, result, expanded, expanded_twice>>

(* The variables of a run of a translated machine, besides the input word. *)
tvars == <<TT_transitions, ot_conf, macro, chosen, phase_conf>>

-----------------------------------------------------------------------------
(* Constants of both programs.                                             *)

BLANK == 0
ACCEPT_STATE == "accept"
REJECT_STATE == "reject"
START_STATE == "start"
R == "R"
L == "L"
S == "S"
DIRS == {R, L, S}

-----------------------------------------------------------------------------
(* Bounds of the model.                                                    *)

MaxWordLen == 2      \* input words have at most this many letters
MaxInputSym == 2     \* input words are over 1..MaxInputSym
MaxSteps == 4        \* run() is called with max_steps in 1..MaxSteps
MaxTableSize == 3    \* a single-tape table has at most this many transitions
MaxTTSize == 3       \* a two-tape table has at most this many transitions
MaxMacro == 4        \* a translated machine simulates at most this many two-tape steps

RECURSIVE WordsOfLen(_)
WordsOfLen(n) ==
    IF n = 0 THEN {<<>>}
    ELSE {Append(w, a) : w \in WordsOfLen(n - 1), a \in 1..MaxInputSym}

Words == UNION {WordsOfLen(n) : n \in 0..MaxWordLen}

(* The single-tape transitions the tables of the model are made of: a      *)
(* table is any subset of at most MaxTableSize of them.  Each is <<state, letter, target_state,            *)
(* target_letter, direction>>, one line of a *.tm file.                    *)
TransitionUniverse ==
    { <<"start", 1, "accept", 1, S>>,
      <<"start", 1, "reject", 1, S>>,
      <<"start", 1, "q1", 1, R>>,
      <<"start", 1, "start", 1, S>>,
      <<"start", 1, "start", 0, L>>,
      <<"start", 0, "start", 0, R>>,
      <<"start", 0, "q1", 0, R>>,
      <<"q1", 0, "q1", 1, L>>,
      <<"q1", 0, "start", 0, L>>,
      <<"q1", 1, "q1", 1, R>>,
      <<"q1", 1, "accept", 0, L>>,
      <<"accept", 1, "reject", 1, S>> }

Tables == {t \in SUBSET TransitionUniverse : Cardinality(t) <= MaxTableSize}

-----------------------------------------------------------------------------
(* src/interpreter.py                                                      *)

(* self._transitions.get((state, letter), []) *)
Lookup(table, state, letter) ==
    {<<t[3], t[4], t[5]>> : t \in {u \in table : u[1] = state /\ u[2] = letter}}

is_conf_terminalOnlyReject(conf) == conf[1] = REJECT_STATE

is_conf_terminal(conf) == conf[1] \in {ACCEPT_STATE, REJECT_STATE}

is_conf_acceptingMut(conf) == conf[1] \in {ACCEPT_STATE, REJECT_STATE}

is_conf_accepting(conf) == conf[1] = ACCEPT_STATE

(* The body of the for loop of get_next_configurations: the configuration  *)
(* one transition <<target_state, target_letter, direction>> leads to.     *)
next_configurationNoClamp(conf, transition) ==
    LET head_pos == conf[3]
        new_tape == [conf[2] EXCEPT ![head_pos + 1] = transition[2]]
    IN  IF transition[3] = L
        THEN <<transition[1], new_tape, head_pos - 1>>
        ELSE IF transition[3] = R
        THEN IF head_pos + 1 = Len(conf[2])
             THEN <<transition[1], Append(new_tape, BLANK), head_pos + 1>>
             ELSE <<transition[1], new_tape, head_pos + 1>>
        ELSE <<transition[1], new_tape, head_pos>>

next_configurationPadOne(conf, transition) ==
    LET head_pos == conf[3]
        new_tape == [conf[2] EXCEPT ![head_pos + 1] = transition[2]]
    IN  IF transition[3] = L /\ head_pos > 0
        THEN <<transition[1], new_tape, head_pos - 1>>
        ELSE IF transition[3] = R
        THEN IF head_pos + 1 = Len(conf[2])
             THEN <<transition[1], Append(new_tape, 1), head_pos + 1>>
             ELSE <<transition[1], new_tape, head_pos + 1>>
        ELSE <<transition[1], new_tape, head_pos>>

next_configurationAlwaysExtends(conf, transition) ==
    LET head_pos == conf[3]
        new_tape == [conf[2] EXCEPT ![head_pos + 1] = transition[2]]
    IN  IF transition[3] = L /\ head_pos > 0
        THEN <<transition[1], new_tape, head_pos - 1>>
        ELSE IF transition[3] = R
        THEN <<transition[1], Append(new_tape, BLANK), head_pos + 1>>
        ELSE <<transition[1], new_tape, head_pos>>

next_configuration(conf, transition) ==
    LET head_pos == conf[3]
        new_tape == [conf[2] EXCEPT ![head_pos + 1] = transition[2]]
    IN  IF transition[3] = L /\ head_pos > 0
        THEN <<transition[1], new_tape, head_pos - 1>>
        ELSE IF transition[3] = R
        THEN IF head_pos + 1 = Len(conf[2])
             THEN <<transition[1], Append(new_tape, BLANK), head_pos + 1>>
             ELSE <<transition[1], new_tape, head_pos + 1>>
        ELSE <<transition[1], new_tape, head_pos>>

get_next_configurations(table, conf) ==
    LET letter == conf[2][conf[3] + 1]
    IN  {next_configuration(conf, transition) : transition \in Lookup(table, conf[1], letter)}

(* run(), lines 83-88: the configuration the search starts from. *)
initial_configuration(word) == <<START_STATE, Append(word, BLANK), 0>>

(* run(), line 95: whether a popped configuration is new. *)
not_in_historyMut(conf, hist) == TRUE

not_in_history(conf, hist) == conf \notin hist

(* run(), line 96: history |= {conf}. *)
add_historyMut(hist, conf) == hist

add_history(hist, conf) == hist \cup {conf}

(* run(), line 94: what pop() leaves in current_configurations. *)
pop_restMut(confs, conf) == confs

pop_rest(confs, conf) == confs \ {conf}

Init ==
    /\ transitions \in Tables
    /\ tape \in Words
    /\ max_steps \in 1..MaxSteps
    /\ current_configurations = {initial_configuration(tape)}
    /\ next_configurations = {}
    /\ history = {}
    /\ steps = 1
    /\ pc = "outer"
    /\ result = FALSE
    /\ expanded = {}
    /\ expanded_twice = FALSE
    /\ TT_transitions = {}
    /\ ot_conf = <<>>
    /\ macro = 0
    /\ chosen = <<>>
    /\ phase_conf = <<>>

(* Line 92, the outer loop's test holds. *)
EnterLayer ==
    /\ pc = "outer"
    /\ current_configurations # {} /\ steps <= max_steps
    /\ pc' = "inner"
    /\ UNCHANGED <<transitions, tape, max_steps, current_configurations,
                   next_configurations, history, steps, result, expanded, expanded_twice>>
    /\ UNCHANGED tvars

(* Line 92 fails and line 104 returns False. *)
ReturnFalse ==
    /\ pc = "outer"
    /\ ~(current_configurations # {} /\ steps <= max_steps)
    /\ pc' = "done"
    /\ result' = FALSE
    /\ UNCHANGED <<transitions, tape, max_steps, current_configurations,
                   next_configurations, history, steps, expanded, expanded_twice>>
    /\ UNCHANGED tvars

(* Lines 93-95: pop() hands out a configuration that is in history. The    *)
(* frontier is a set after the first layer, so pop() may hand out any of   *)
(* its elements.                                                           *)
PopSeen ==
    /\ pc = "inner"
    /\ \E conf \in current_configurations :
        /\ ~not_in_history(conf, history)
        /\ current_configurations' = pop_rest(current_configurations, conf)
    /\ UNCHANGED <<transitions, tape, max_steps, next_configurations, history,
                   steps, pc, result, expanded, expanded_twice>>
    /\ UNCHANGED tvars

(* Lines 93-98: a new configuration that is terminal ends the run. *)
PopTerminal ==
    /\ pc = "inner"
    /\ \E conf \in current_configurations :
        /\ not_in_history(conf, history)
        /\ is_conf_terminal(conf)
        /\ current_configurations' = pop_rest(current_configurations, conf)
        /\ history' = add_history(history, conf)
        /\ result' = is_conf_accepting(conf)
    /\ pc' = "done"
    /\ UNCHANGED <<transitions, tape, max_steps, next_configurations, steps,
                   expanded, expanded_twice>>
    /\ UNCHANGED tvars

(* Lines 93-99: a new configuration that is not terminal is expanded. *)
PopExpand ==
    /\ pc = "inner"
    /\ \E conf \in current_configurations :
        /\ not_in_history(conf, history)
        /\ ~is_conf_terminal(conf)
        /\ current_configurations' = pop_rest(current_configurations, conf)
        /\ history' = add_history(history, conf)
        /\ next_configurations' =
               next_configurations \cup get_next_configurations(transitions, conf)
        /\ expanded' = expanded \cup {conf}
        /\ expanded_twice' = (expanded_twice \/ conf \in expanded)
    /\ UNCHANGED <<transitions, tape, max_steps, steps, pc, result>>
    /\ UNCHANGED tvars

(* Lines 93 and 101-103: the layer is drained, the next one takes over. *)
EndLayer ==
    /\ pc = "inner"
    /\ current_configurations = {}
    /\ current_configurations' = next_configurations
    /\ next_configurations' = {}
    /\ steps' = steps + 1
    /\ pc' = "outer"
    /\ UNCHANGED <<transitions, tape, max_steps, history, result, expanded, expanded_twice>>
    /\ UNCHANGED tvars

Next ==
    \/ EnterLayer
    \/ ReturnFalse
    \/ PopSeen
    \/ PopTerminal
    \/ PopExpand
    \/ EndLayer

Spec == Init /\ [][Next]_vars

(* run() is one sequential call: it keeps taking steps until it returns. *)
FairSpec == Spec /\ WF_vars(Next)

-----------------------------------------------------------------------------
(* What the machine itself can do, independently of how run() searches:    *)
(* the configurations some run reaches after exactly n transitions.  A run *)
(* ends when it enters accept or reject.                                   *)

RECURSIVE ReachExact(_, _, _)
ReachExact(table, word, n) ==
    IF n = 0 THEN {initial_configuration(word)}
    ELSE UNION {get_next_configurations(table, c) :
                    c \in {d \in ReachExact(table, word, n - 1) : ~is_conf_terminal(d)}}

ReachWithin(table, word, n) == UNION {ReachExact(table, word, k) : k \in 0..n}

(* The states the table's transitions lead to from start, whatever the     *)
(* tape holds: a state outside this set is in no reachable configuration.  *)
RECURSIVE StateClosure(_, _)
StateClosure(table, states) ==
    LET more == states \cup {t[3] : t \in {u \in table : u[1] \in states}}
    IN  IF more = states THEN states ELSE StateClosure(table, more)

RejectUnreachable(table) == REJECT_STATE \notin StateClosure(table, {START_STATE})

AllConfigurations == current_configurations \cup next_configurations

LastCell(conf) == conf[2][Len(conf[2])]

-----------------------------------------------------------------------------
(* C2: nondeterministic acceptance.  If some run of the machine enters     *)
(* accept after fewer than max_steps transitions, run() returns True, also *)
(* when another run enters reject as early.                                *)
C2_AcceptsWhenSomeRunAccepts ==
    (pc = "done" /\ \E c \in ReachWithin(transitions, tape, max_steps - 1) :
                        c[1] = ACCEPT_STATE)
        => result = TRUE

(* C3: for a table from which reject cannot be reached, run() returns True *)
(* if and only if some run enters accept after at most max_steps           *)
(* transitions.                                                            *)
C3_AcceptsWithinMaxSteps ==
    (pc = "done" /\ RejectUnreachable(transitions))
        => (result = TRUE <=>
                \E c \in ReachWithin(transitions, tape, max_steps) : c[1] = ACCEPT_STATE)

(* C4: soundness.  run() returns True only if a sequence of transitions of *)
(* the table leads from the initial configuration to one in state accept;  *)
(* a machine that gets stuck or only reaches reject yields False.          *)
C4_Soundness ==
    (pc = "done" /\ result = TRUE)
        => \E c \in ReachWithin(transitions, tape, max_steps) : c[1] = ACCEPT_STATE

C4_Witness == pc = "done" /\ result = TRUE /\ steps > 2

(* C5: termination.  The outer loop begins at most max_steps layers and    *)
(* run() eventually returns, whatever the table, the word and the bound.   *)
C5_Termination == [](steps <= max_steps + 1) /\ <>(pc = "done")

C5_Witness ==
    /\ pc = "done"
    /\ steps = max_steps + 1
    /\ current_configurations # {}
    /\ \E c \in current_configurations : Len(c[2]) > Len(tape) + 1

(* C6 as claimed: the last cell of the tape is BLANK in every              *)
(* configuration of the frontier and of the next layer.                    *)
C6_TrailingBlankAlways == \A c \in AllConfigurations : LastCell(c) = BLANK

(* Every transition that reads BLANK and does not move right writes BLANK. *)
KeepsBlank(table) == \A t \in table : (t[2] = BLANK /\ t[5] # R) => t[4] = BLANK

(* C6 amended: for a table in which every transition that reads BLANK with *)
(* direction L or S writes BLANK, the last cell of the tape is BLANK in    *)
(* every configuration of the frontier and of the next layer.              *)
C6_TrailingBlank ==
    KeepsBlank(transitions) => \A c \in AllConfigurations : LastCell(c) = BLANK

C6_Witness ==
    /\ KeepsBlank(transitions)
    /\ \E c \in history : \E t \in Lookup(transitions, c[1], c[2][c[3] + 1]) :
          /\ Len(c[2]) > Len(tape) + 1
          /\ c[3] = Len(c[2]) - 1
          /\ t[3] # R
          /\ c[2][c[3] + 1] = BLANK
          /\ next_configuration(c, t) \in AllConfigurations

(* C7: the head is in range in every configuration created during a run;   *)
(* a transition with direction L taken at head_pos = 0 leaves the head at  *)
(* 0, and one with direction R taken on the last cell extends the tape so  *)
(* that the new head_pos is its last index.                                *)
C7_HeadInRange ==
    \A c \in AllConfigurations \cup history :
        /\ 0 <= c[3] /\ c[3] < Len(c[2])
        /\ \A t \in Lookup(transitions, c[1], c[2][c[3] + 1]) :
              LET n == next_configuration(c, t)
              IN  /\ 0 <= n[3] /\ n[3] < Len(n[2])
                  /\ (t[3] = L /\ c[3] = 0) => n[3] = 0
                  /\ (t[3] = R /\ c[3] = Len(c[2]) - 1) =>
                         (Len(n[2]) = Len(c[2]) + 1 /\ n[3] = Len(n[2]) - 1)

C7_Witness ==
    /\ \E c \in history : \E t \in Lookup(transitions, c[1], c[2][c[3] + 1]) :
          t[3] = L /\ c[3] = 0 /\ next_configuration(c, t) \in AllConfigurations
    /\ \E c \in history : \E t \in Lookup(transitions, c[1], c[2][c[3] + 1]) :
          t[3] = R /\ c[3] = Len(c[2]) - 1 /\ next_configuration(c, t) \in AllConfigurations

(* C8: get_next_configurations is called at most once per configuration    *)
(* value, and every configuration it was called on stays in history.       *)
C8_ExpandedOnce == ~expanded_twice /\ expanded \subseteq history

C8_Witness ==
    /\ pc = "inner"
    /\ \E c \in current_configurations : c \in expanded

(* The reachable configurations are finitely many: n transitions reach     *)
(* nothing that fewer do not.                                              *)
ClosedWithin(table, word, n) ==
    LET reach == ReachWithin(table, word, n)
    IN  \A c \in reach :
            is_conf_terminal(c) \/ get_next_configurations(table, c) \subseteq reach

(* C9: if the reachable configurations are n, none of them terminal, and   *)
(* max_steps > n, then run() ends with an empty frontier and returns       *)
(* False.                                                                  *)
C9_CycleEmptiesFrontier ==
    LET reach == ReachWithin(transitions, tape, MaxSteps)
    IN  (/\ pc = "done"
         /\ ClosedWithin(transitions, tape, MaxSteps)
         /\ \A c \in reach : ~is_conf_terminal(c)
         /\ max_steps > Cardinality(reach))
            => (result = FALSE /\ current_configurations = {})

C9_Witness ==
    LET reach == ReachWithin(transitions, tape, MaxSteps)
    IN  /\ pc = "done"
        /\ ClosedWithin(transitions, tape, MaxSteps)
        /\ \A c \in reach : ~is_conf_terminal(c)
        /\ max_steps = Cardinality(reach) + 1
        /\ steps = max_steps + 1
        /\ history # {}

-----------------------------------------------------------------------------
(* src/translate.py                                                        *)
(*                                                                         *)
(* A two-tape table is a set of 8-tuples <<state, let1, let2,              *)
(* target_state, out_let1, out_let2, dir1, dir2>>: the entries             *)
(* TT_transitions[(state, let1, let2)] of the source, one per line of a    *)
(* two-tape *.tm file.                                                     *)

SetMax(set) == CHOOSE m \in set : \A x \in set : x <= m

underlineOutOfBand(let, max_val) == 3 * max_val + let

underline(let, max_val) == max_val + let

double_underline(let, max_val) == 2 * max_val + let

un_underline(let, max_val) == let - max_val

un_double_underline(let, max_val) == let - 2 * max_val

get_alphabet(TT) ==
    {BLANK} \cup UNION {{t[2], t[3], t[5], t[6]} : t \in TT}

get_states(TT) ==
    {START_STATE, ACCEPT_STATE, REJECT_STATE}
        \cup UNION {{t[1], t[4]} : t \in TT}

(* state(name, **kwards): name followed by "|key:val" for every keyword    *)
(* argument, in the order given.  kwards is a sequence of <<key, val>>,    *)
(* val being the text Python's f-string gives the value.                   *)
RECURSIVE state(_, _)
state(name, kwards) ==
    IF kwards = <<>> THEN name
    ELSE state(name \o "|" \o kwards[1][1] \o ":" \o kwards[1][2], Tail(kwards))

(* The text of an integer letter in an f-string. *)
Str(let) == ToString(let)

(* TT_transitions.get((org_state, let1, let2), []) *)
TT_get(TT, org_state, let1, let2) ==
    {<<t[4], t[5], t[6], t[7], t[8]>> :
        t \in {u \in TT : u[1] = org_state /\ u[2] = let1 /\ u[3] = let2}}

max_val_of(TT) == SetMax(get_alphabet(TT)) + 1

underlined_alphabet_of(TT) ==
    {max_val_of(TT) + let : let \in get_alphabet(TT)}

double_underlined_alphabet_of(TT) ==
    {2 * max_val_of(TT) + let : let \in get_alphabet(TT)}

SEPARATOR_of(TT) == 4 * max_val_of(TT)

(* Line 127 uses let2, which no loop of its comprehension binds: it is the *)
(* function's local let2, left by the for loop of lines 116-120 at the     *)
(* last letter the alphabet set iterates.  CPython iterates a set of       *)
(* letters below 8 (all the tables of this model) in increasing order, so  *)
(* that is the largest letter.                                             *)
leaked_let2(TT) == SetMax(get_alphabet(TT))

-----------------------------------------------------------------------------
(* translate_transitions_to_one_tape: one definition per statement that    *)
(* adds to OT_transitions, named by the line of its first tuple.           *)

(* Initialization of the tape. *)
OT_092(TT) ==
    {<<START_STATE, let, state("initializeFirstTape", <<>>),
       underline(let, max_val_of(TT)), R>> : let \in get_alphabet(TT)}

OT_094AnyLetter(TT) ==
    {<<state("initializeFirstTape", <<>>), let, state("initializeFirstTape", <<>>), let, R>> :
        let \in (get_alphabet(TT) \cup 1..9) \ {BLANK}}

OT_094(TT) ==
    {<<state("initializeFirstTape", <<>>), let, state("initializeFirstTape", <<>>), let, R>> :
        let \in get_alphabet(TT) \ {BLANK}}

OT_096(TT) ==
    {<<state("initializeFirstTape", <<>>), BLANK,
       state("initializeSecondTapeBlank", <<>>), SEPARATOR_of(TT), R>>}

OT_097PlainBlank(TT) ==
    {<<state("initializeSecondTapeBlank", <<>>), BLANK,
       state("initializeSecondTapeSeparator", <<>>),
       BLANK, R>>}

OT_097(TT) ==
    {<<state("initializeSecondTapeBlank", <<>>), BLANK,
       state("initializeSecondTapeSeparator", <<>>),
       double_underline(BLANK, max_val_of(TT)), R>>}

OT_098(TT) ==
    {<<state("initializeSecondTapeSeparator", <<>>), BLANK,
       state("goBackToFirstHeadOnSecondTape", <<<<"org_state", START_STATE>>>>),
       SEPARATOR_of(TT), L>>}

OT_099(TT) ==
    {<<state("goBackToFirstHeadOnSecondTape", <<<<"org_state", org_state>>>>), let,
       state("goBackToFirstHeadOnSecondTape", <<<<"org_state", org_state>>>>), let, L>> :
        let \in get_alphabet(TT) \cup double_underlined_alphabet_of(TT),
        org_state \in get_states(TT)}

OT_102(TT) ==
    {<<state("goBackToFirstHeadOnSecondTape", <<<<"org_state", org_state>>>>), SEPARATOR_of(TT),
       state("goBackToFirstHeadOnFirstTape", <<<<"org_state", org_state>>>>), SEPARATOR_of(TT), L>> :
        org_state \in get_states(TT)}

OT_104(TT) ==
    {<<state("goBackToFirstHeadOnFirstTape", <<<<"org_state", org_state>>>>), let,
       state("goBackToFirstHeadOnFirstTape", <<<<"org_state", org_state>>>>), let, L>> :
        let \in get_alphabet(TT), org_state \in get_states(TT)}

OT_107(TT) ==
    {<<state("goBackToFirstHeadOnFirstTape", <<<<"org_state", org_state>>>>), u_let,
       state("ReadLet2", <<<<"org_state", org_state>>,
                           <<"let1", Str(un_underline(u_let, max_val_of(TT)))>>>>),
       u_let, R>> :
        u_let \in underlined_alphabet_of(TT), org_state \in get_states(TT)}

(* Execute the second head transition. *)
OT_112(TT) ==
    {<<state("ReadLet2", <<<<"org_state", org_state>>, <<"let1", Str(let1)>>>>), let,
       state("ReadLet2", <<<<"org_state", org_state>>, <<"let1", Str(let1)>>>>), let, R>> :
        let \in get_alphabet(TT) \cup {SEPARATOR_of(TT)},
        let1 \in get_alphabet(TT),
        org_state \in get_states(TT)}

OT_120AnyLet2(TT) ==
    UNION {
        {<<state("ReadLet2", <<<<"org_state", k[1]>>, <<"let1", Str(k[2])>>>>),
           double_underline(k[3], max_val_of(TT)),
           state("executeSecondHeadAction",
                 <<<<"org_state", t[1]>>, <<"tlet1", Str(t[2])>>, <<"tlet2", Str(t[3])>>,
                   <<"dir1", t[4]>>, <<"dir2", t[5]>>>>),
           double_underline(k[3], max_val_of(TT)), S>> :
            t \in UNION {TT_get(TT, k[1], k[2], let2) : let2 \in get_alphabet(TT)}} :
        k \in get_states(TT) \X get_alphabet(TT) \X get_alphabet(TT)}

OT_120(TT) ==
    UNION {
        {<<state("ReadLet2", <<<<"org_state", k[1]>>, <<"let1", Str(k[2])>>>>),
           double_underline(k[3], max_val_of(TT)),
           state("executeSecondHeadAction",
                 <<<<"org_state", t[1]>>, <<"tlet1", Str(t[2])>>, <<"tlet2", Str(t[3])>>,
                   <<"dir1", t[4]>>, <<"dir2", t[5]>>>>),
           double_underline(k[3], max_val_of(TT)), S>> :
            t \in TT_get(TT, k[1], k[2], k[3])} :
        k \in get_states(TT) \X get_alphabet(TT) \X get_alphabet(TT)}

OT_121(TT) ==
    {<<state("executeSecondHeadAction",
             <<<<"org_state", org_state>>, <<"tlet1", Str(tlet1)>>, <<"tlet2", Str(tlet2)>>,
               <<"dir1", dir1>>, <<"dir2", R>>>>),
       double_underline(let2, max_val_of(TT)),
       state("executeSecondHeadActionRightCheckIfExceedsTape",
             <<<<"org_state", org_state>>, <<"tlet1", Str(tlet1)>>, <<"dir1", dir1>>>>),
       tlet2, R>> :
        tlet1 \in get_alphabet(TT), tlet2 \in get_alphabet(TT), let2 \in get_alphabet(TT),
        dir1 \in DIRS, org_state \in get_states(TT)}

OT_127(TT) ==
    {<<state("executeSecondHeadActionRightCheckIfExceedsTape",
             <<<<"org_state", org_state>>, <<"tlet1", Str(tlet1)>>, <<"dir1", dir1>>>>),
       let,
       state("goToFirstHead",
             <<<<"org_state", org_state>>, <<"tlet1", Str(tlet1)>>, <<"dir1", dir1>>>>),
       double_underline(leaked_let2(TT), max_val_of(TT)), R>> :
        tlet1 \in get_alphabet(TT), let \in get_alphabet(TT),
        dir1 \in DIRS, org_state \in get_states(TT)}

OT_132KeepsSeparator(TT) ==
    {<<state("executeSecondHeadActionRightCheckIfExceedsTape",
             <<<<"org_state", org_state>>, <<"tlet1", Str(tlet1)>>, <<"dir1", dir1>>>>),
       SEPARATOR_of(TT),
       state("executeSecondHeadActionRightTapeExceededWriteNewSeparator",
             <<<<"org_state", org_state>>, <<"tlet1", Str(tlet1)>>, <<"dir1", dir1>>>>),
       SEPARATOR_of(TT), R>> :
        tlet1 \in get_alphabet(TT), dir1 \in DIRS, org_state \in get_states(TT)}

OT_132(TT) ==
    {<<state("executeSecondHeadActionRightCheckIfExceedsTape",
             <<<<"org_state", org_state>>, <<"tlet1", Str(tlet1)>>, <<"dir1", dir1>>>>),
       SEPARATOR_of(TT),
       state("executeSecondHeadActionRightTapeExceededWriteNewSeparator",
             <<<<"org_state", org_state>>, <<"tlet1", Str(tlet1)>>, <<"dir1", dir1>>>>),
       double_underline(BLANK, max_val_of(TT)), R>> :
        tlet1 \in get_alphabet(TT), dir1 \in DIRS, org_state \in get_states(TT)}

OT_136NoSeparator(TT) ==
    {<<state("executeSecondHeadActionRightTapeExceededWriteNewSeparator",
             <<<<"org_state", org_state>>, <<"tlet1", Str(tlet1)>>, <<"dir1", dir1>>>>),
       BLANK,
       state("goToFirstHead",
             <<<<"org_state", org_state>>, <<"tlet1", Str(tlet1)>>, <<"dir1", dir1>>>>),
       BLANK, L>> :
        tlet1 \in get_alphabet(TT), dir1 \in DIRS, org_state \in get_states(TT)}

OT_136(TT) ==
    {<<state("executeSecondHeadActionRightTapeExceededWriteNewSeparator",
             <<<<"org_state", org_state>>, <<"tlet1", Str(tlet1)>>, <<"dir1", dir1>>>>),
       BLANK,
       state("goToFirstHead",
             <<<<"org_state", org_state>>, <<"tlet1", Str(tlet1)>>, <<"dir1", dir1>>>>),
       SEPARATOR_of(TT), L>> :
        tlet1 \in get_alphabet(TT), dir1 \in DIRS, org_state \in get_states(TT)}

OT_140(TT) ==
    {<<state("executeSecondHeadAction",
             <<<<"org_state", org_state>>, <<"tlet1", Str(tlet1)>>, <<"tlet2", Str(tlet2)>>,
               <<"dir1", dir1>>, <<"dir2", S>>>>),
       let2,
       state("goToFirstHead",
             <<<<"org_state", org_state>>, <<"tlet1", Str(tlet1)>>, <<"dir1", dir1>>>>),
       double_underline(tlet2, max_val_of(TT)), L>> :
        tlet1 \in get_alphabet(TT), tlet2 \in get_alphabet(TT),
        let2 \in double_underlined_alphabet_of(TT),
        dir1 \in DIRS, org_state \in get_states(TT)}

OT_146(TT) ==
    {<<state("executeSecondHeadAction",
             <<<<"org_state", org_state>>, <<"tlet1", Str(tlet1)>>, <<"tlet2", Str(tlet2)>>,
               <<"dir1", dir1>>, <<"dir2", L>>>>),
       let2,
       state("executeSecondHeadActionLeftCheckIfExceedsTape",
             <<<<"org_state", org_state>>, <<"tlet1", Str(tlet1)>>, <<"dir1", dir1>>>>),
       tlet2, L>> :
        tlet1 \in get_alphabet(TT), tlet2 \in get_alphabet(TT),
        let2 \in double_underlined_alphabet_of(TT),
        dir1 \in DIRS, org_state \in get_states(TT)}

OT_152(TT) ==
    {<<state("executeSecondHeadActionLeftCheckIfExceedsTape",
             <<<<"org_state", org_state>>, <<"tlet1", Str(tlet1)>>, <<"dir1", dir1>>>>),
       let,
       state("goToFirstHead",
             <<<<"org_state", org_state>>, <<"tlet1", Str(tlet1)>>, <<"dir1", dir1>>>>),
       double_underline(let, max_val_of(TT)), L>> :
        tlet1 \in get_alphabet(TT), let \in get_alphabet(TT),
        dir1 \in DIRS, org_state \in get_states(TT)}

OT_157(TT) ==
    {<<state("executeSecondHeadActionLeftCheckIfExceedsTape",
             <<<<"org_state", org_state>>, <<"tlet1", Str(tlet1)>>, <<"dir1", dir1>>>>),
       SEPARATOR_of(TT),
       state("executeSecondHeadActionLeftTapeExceededWriteDoubleUnderline",
             <<<<"org_state", org_state>>, <<"tlet1", Str(tlet1)>>, <<"dir1", dir1>>>>),
       SEPARATOR_of(TT), R>> :
        tlet1 \in get_alphabet(TT), dir1 \in DIRS, org_state \in get_states(TT)}

OT_161WritesBlank(TT) ==
    {<<state("executeSecondHeadActionLeftTapeExceededWriteDoubleUnderline",
             <<<<"org_state", org_state>>, <<"tlet1", Str(tlet1)>>, <<"dir1", dir1>>>>),
       let,
       state("goToFirstHead",
             <<<<"org_state", org_state>>, <<"tlet1", Str(tlet1)>>, <<"dir1", dir1>>>>),
       double_underline(BLANK, max_val_of(TT)), L>> :
        tlet1 \in get_alphabet(TT), dir1 \in DIRS, let \in get_alphabet(TT),
        org_state \in get_states(TT)}

OT_161(TT) ==
    {<<state("executeSecondHeadActionLeftTapeExceededWriteDoubleUnderline",
             <<<<"org_state", org_state>>, <<"tlet1", Str(tlet1)>>, <<"dir1", dir1>>>>),
       let,
       state("goToFirstHead",
             <<<<"org_state", org_state>>, <<"tlet1", Str(tlet1)>>, <<"dir1", dir1>>>>),
       double_underline(let, max_val_of(TT)), L>> :
        tlet1 \in get_alphabet(TT), dir1 \in DIRS, let \in get_alphabet(TT),
        org_state \in get_states(TT)}

(* Go back to the first head. *)
OT_168(TT) ==
    {<<state("goToFirstHead",
             <<<<"org_state", org_state>>, <<"tlet1", Str(tlet1)>>, <<"dir1", dir1>>>>),
       let,
       state("goToFirstHead",
             <<<<"org_state", org_state>>, <<"tlet1", Str(tlet1)>>, <<"dir1", dir1>>>>),
       let, L>> :
        tlet1 \in get_alphabet(TT), dir1 \in DIRS,
        let \in get_alphabet(TT) \cup double_underlined_alphabet_of(TT) \cup {SEPARATOR_of(TT)},
        org_state \in get_states(TT)}

OT_173(TT) ==
    {<<state("goToFirstHead",
             <<<<"org_state", org_state>>, <<"tlet1", Str(tlet1)>>, <<"dir1", dir1>>>>),
       let1,
       state("executeFirstHeadAction",
             <<<<"org_state", org_state>>, <<"tlet1", Str(tlet1)>>, <<"dir1", dir1>>>>),
       let1, S>> :
        tlet1 \in get_alphabet(TT), dir1 \in DIRS,
        let1 \in underlined_alphabet_of(TT), org_state \in get_states(TT)}

(* Execute the first head transition. *)
OT_180(TT) ==
    {<<state("executeFirstHeadAction",
             <<<<"org_state", org_state>>, <<"tlet1", Str(tlet1)>>, <<"dir1", S>>>>),
       let1,
       state("checkIfTerminalState", <<<<"org_state", org_state>>>>),
       underline(tlet1, max_val_of(TT)), S>> :
        tlet1 \in get_alphabet(TT), let1 \in underlined_alphabet_of(TT),
        org_state \in get_states(TT)}

OT_184(TT) ==
    {<<state("executeFirstHeadAction",
             <<<<"org_state", org_state>>, <<"tlet1", Str(tlet1)>>, <<"dir1", L>>>>),
       let1,
       state("executeFirstHeadActionLeftCheckIfExceedsTape",
             <<<<"org_state", org_state>>, <<"tlet1", Str(tlet1)>>>>),
       let1, L>> :
        tlet1 \in get_alphabet(TT), let1 \in underlined_alphabet_of(TT),
        org_state \in get_states(TT)}

OT_188KeepsLetter(TT) ==
    {<<state("executeFirstHeadActionLeftCheckIfExceedsTape",
             <<<<"org_state", org_state>>, <<"tlet1", Str(tlet1)>>>>),
       let1,
       state("checkIfTerminalState", <<<<"org_state", org_state>>>>),
       let1, S>> :
        tlet1 \in get_alphabet(TT), let1 \in underlined_alphabet_of(TT),
        org_state \in get_states(TT)}

OT_188(TT) ==
    {<<state("executeFirstHeadActionLeftCheckIfExceedsTape",
             <<<<"org_state", org_state>>, <<"tlet1", Str(tlet1)>>>>),
       let1,
       state("checkIfTerminalState", <<<<"org_state", org_state>>>>),
       underline(tlet1, max_val_of(TT)), S>> :
        tlet1 \in get_alphabet(TT), let1 \in underlined_alphabet_of(TT),
        org_state \in get_states(TT)}

OT_192(TT) ==
    {<<state("executeFirstHeadActionLeftCheckIfExceedsTape",
             <<<<"org_state", org_state>>, <<"tlet1", Str(tlet1)>>>>),
       let,
       state("executeFirstHeadActionLeftCheckIfExceedsTapeTapeNotExceeded",
             <<<<"org_state", org_state>>>>),
       underline(let, max_val_of(TT)), R>> :
        tlet1 \in get_alphabet(TT), let \in get_alphabet(TT), org_state \in get_states(TT)}

OT_196(TT) ==
    {<<state("executeFirstHeadActionLeftCheckIfExceedsTapeTapeNotExceeded",
             <<<<"org_state", org_state>>>>),
       let1,
       state("checkIfTerminalState", <<<<"org_state", org_state>>>>),
       un_underline(let1, max_val_of(TT)), L>> :
        tlet1 \in get_alphabet(TT), let1 \in underlined_alphabet_of(TT),
        org_state \in get_states(TT)}

OT_200(TT) ==
    {<<state("executeFirstHeadAction",
             <<<<"org_state", org_state>>, <<"tlet1", Str(tlet1)>>, <<"dir1", R>>>>),
       let1,
       state("executeFirstHeadActionRightCheckIfExceedsTape", <<<<"org_state", org_state>>>>),
       tlet1, R>> :
        tlet1 \in get_alphabet(TT), let1 \in underlined_alphabet_of(TT),
        org_state \in get_states(TT)}

OT_204(TT) ==
    {<<state("executeFirstHeadActionRightCheckIfExceedsTape", <<<<"org_state", org_state>>>>),
       let,
       state("checkIfTerminalState", <<<<"org_state", org_state>>>>),
       underline(let, max_val_of(TT)), S>> :
        tlet1 \in get_alphabet(TT), let \in get_alphabet(TT), org_state \in get_states(TT)}

OT_208(TT) ==
    {<<state("executeFirstHeadActionRightCheckIfExceedsTape", <<<<"org_state", org_state>>>>),
       SEPARATOR_of(TT),
       state("rewriteSecondTapeWriteSeparator", <<<<"org_state", org_state>>>>),
       underline(BLANK, max_val_of(TT)), R>> :
        org_state \in get_states(TT)}

OT_210(TT) ==
    {<<state("rewriteSecondTapeWriteSeparator", <<<<"org_state", org_state>>>>),
       let,
       state("rewriteSecondTape", <<<<"org_state", org_state>>, <<"last_letter", Str(let)>>>>),
       SEPARATOR_of(TT), R>> :
        let \in get_alphabet(TT) \cup double_underlined_alphabet_of(TT),
        org_state \in get_states(TT)}

OT_213NoShift(TT) ==
    {<<state("rewriteSecondTape", <<<<"org_state", org_state>>, <<"last_letter", Str(let)>>>>),
       let2,
       state("rewriteSecondTape", <<<<"org_state", org_state>>, <<"last_letter", Str(let2)>>>>),
       let2, R>> :
        let \in get_alphabet(TT) \cup double_underlined_alphabet_of(TT),
        let2 \in get_alphabet(TT) \cup double_underlined_alphabet_of(TT) \cup {SEPARATOR_of(TT)},
        org_state \in get_states(TT)}

OT_213(TT) ==
    {<<state("rewriteSecondTape", <<<<"org_state", org_state>>, <<"last_letter", Str(let)>>>>),
       let2,
       state("rewriteSecondTape", <<<<"org_state", org_state>>, <<"last_letter", Str(let2)>>>>),
       let, R>> :
        let \in get_alphabet(TT) \cup double_underlined_alphabet_of(TT),
        let2 \in get_alphabet(TT) \cup double_underlined_alphabet_of(TT) \cup {SEPARATOR_of(TT)},
        org_state \in get_states(TT)}

OT_217(TT) ==
    {<<state("rewriteSecondTape",
             <<<<"org_state", org_state>>, <<"last_letter", Str(SEPARATOR_of(TT))>>>>),
       BLANK,
       state("goToFirstHeadCheckTerminal", <<<<"org_state", org_state>>>>),
       SEPARATOR_of(TT), L>> :
        org_state \in get_states(TT)}

OT_219(TT) ==
    {<<state("goToFirstHeadCheckTerminal", <<<<"org_state", org_state>>>>),
       let,
       state("goToFirstHeadCheckTerminal", <<<<"org_state", org_state>>>>),
       let, L>> :
        let \in get_alphabet(TT) \cup double_underlined_alphabet_of(TT) \cup {SEPARATOR_of(TT)},
        org_state \in get_states(TT)}

OT_222(TT) ==
    {<<state("goToFirstHeadCheckTerminal", <<<<"org_state", org_state>>>>),
       let,
       state("checkIfTerminalState", <<<<"org_state", org_state>>>>),
       let, S>> :
        let \in underlined_alphabet_of(TT), org_state \in get_states(TT)}

(* Check if terminal state. *)
OT_227(TT) ==
    {<<state("checkIfTerminalState", <<<<"org_state", org_state>>>>), let1, org_state, let1, S>> :
        let1 \in underlined_alphabet_of(TT), org_state \in {ACCEPT_STATE, REJECT_STATE}}

OT_230AllStates(TT) ==
    {<<state("checkIfTerminalState", <<<<"org_state", org_state>>>>),
       let1,
       state("ReadLet2", <<<<"org_state", org_state>>,
                           <<"let1", Str(un_underline(let1, max_val_of(TT)))>>>>),
       let1, R>> :
        let1 \in underlined_alphabet_of(TT),
        org_state \in get_states(TT)}

OT_230(TT) ==
    {<<state("checkIfTerminalState", <<<<"org_state", org_state>>>>),
       let1,
       state("ReadLet2", <<<<"org_state", org_state>>,
                           <<"let1", Str(un_underline(let1, max_val_of(TT)))>>>>),
       let1, R>> :
        let1 \in underlined_alphabet_of(TT),
        org_state \in get_states(TT) \ {ACCEPT_STATE, REJECT_STATE}}

(* The returned list, as the set of its tuples: the interpreter collects   *)
(* the successors of a configuration in a set, so a tuple emitted twice    *)
(* counts once.                                                            *)
translate_transitions_to_one_tape(TT) ==
    OT_092(TT) \cup OT_094(TT) \cup OT_096(TT) \cup OT_097(TT) \cup OT_098(TT)
    \cup OT_099(TT) \cup OT_102(TT) \cup OT_104(TT) \cup OT_107(TT)
    \cup OT_112(TT) \cup OT_120(TT) \cup OT_121(TT) \cup OT_127(TT) \cup OT_132(TT)
    \cup OT_136(TT) \cup OT_140(TT) \cup OT_146(TT) \cup OT_152(TT) \cup OT_157(TT)
    \cup OT_161(TT)
    \cup OT_168(TT) \cup OT_173(TT)
    \cup OT_180(TT) \cup OT_184(TT) \cup OT_188(TT) \cup OT_192(TT) \cup OT_196(TT)
    \cup OT_200(TT) \cup OT_204(TT) \cup OT_208(TT) \cup OT_210(TT) \cup OT_213(TT)
    \cup OT_217(TT) \cup OT_219(TT) \cup OT_222(TT)
    \cup OT_227(TT) \cup OT_230(TT)

-----------------------------------------------------------------------------
(* The two-tape machine itself, as the translator's contract reads it:     *)
(* start in state start with the word on tape 1 and a blank tape 2, both   *)
(* heads at 0; a step writes both cells and then moves both heads; a head  *)
(* at 0 that moves L stays; both tapes are blank to the right.  A          *)
(* configuration is <<state, tape1, head1, tape2, head2>>.                 *)

TT_initial_configuration(word) == <<START_STATE, Append(word, BLANK), 0, <<BLANK>>, 0>>

TT_move_head(head, dir) ==
    IF dir = L THEN (IF head > 0 THEN head - 1 ELSE head)
    ELSE IF dir = R THEN head + 1
    ELSE head

TT_write_tape(tp, head, let, dir) ==
    LET written == [tp EXCEPT ![head + 1] = let]
    IN  IF dir = R /\ head + 1 = Len(tp) THEN Append(written, BLANK) ELSE written

(* t is <<target_state, out_let1, out_let2, dir1, dir2>>. *)
TT_next_configuration(c, t) ==
    <<t[1], TT_write_tape(c[2], c[3], t[2], t[4]), TT_move_head(c[3], t[4]),
            TT_write_tape(c[4], c[5], t[3], t[5]), TT_move_head(c[5], t[5])>>

TT_next_configurations(TT, c) ==
    {TT_next_configuration(c, t) : t \in TT_get(TT, c[1], c[2][c[3] + 1], c[4][c[5] + 1])}

RECURSIVE TT_ReachExact(_, _, _)
TT_ReachExact(TT, word, n) ==
    IF n = 0 THEN {TT_initial_configuration(word)}
    ELSE UNION {TT_next_configurations(TT, c) :
                    c \in {d \in TT_ReachExact(TT, word, n - 1) :
                              d[1] \notin {ACCEPT_STATE, REJECT_STATE}}}

TT_AcceptsWithin(TT, word, n) ==
    \E k \in 0..n : \E c \in TT_ReachExact(TT, word, k) : c[1] = ACCEPT_STATE

-----------------------------------------------------------------------------
(* Runs of translated machines.                                            *)

(* The two-tape transitions the two-tape tables of the model are made of:  *)
(* a table is any set of at most MaxTTSize of them.                        *)
TT_TransitionSeq ==
    << <<"start", 1, 0, "q1", 1, 0, R, S>>,
       <<"q1", 1, 0, "start", 0, 1, L, S>>,
       <<"q1", 0, 0, "start", 1, 1, L, L>>,
       <<"start", 1, 1, "accept", 1, 1, S, S>>,
       <<"start", 1, 0, "start", 1, 0, S, R>>,
       <<"start", 1, 0, "start", 1, 0, S, L>>,
       <<"start", 1, 0, "start", 0, 1, L, R>>,
       <<"start", 1, 0, "reject", 1, 0, S, S>>,
       <<"start", 0, 0, "q1", 1, 1, R, R>>,
       <<"start", 1, 0, "accept", 1, 0, S, S>> >>

TT_TransitionUniverse == {TT_TransitionSeq[i] : i \in 1..Len(TT_TransitionSeq)}

TT_Tables == {t \in SUBSET TT_TransitionUniverse : Cardinality(t) <= MaxTTSize}

(* The tables numbered by the transitions they hold: transition i of       *)
(* TT_TransitionSeq counts 2^(i-1).                                        *)
TT_TableOfNumber(k) ==
    {TT_TransitionSeq[i] : i \in {j \in 1..Len(TT_TransitionSeq) : (k \div 2^(j - 1)) % 2 = 1}}

RECURSIVE TT_NumberUpTo(_, _)
TT_NumberUpTo(TT, n) ==
    IF n = 0 THEN 0
    ELSE (IF TT_TransitionSeq[n] \in TT THEN 2^(n - 1) ELSE 0) + TT_NumberUpTo(TT, n - 1)

(* The translation of every two-tape table of the model, computed once.    *)
OT_ByNumber ==
    [k \in 0..(2^Len(TT_TransitionSeq) - 1) |->
        IF Cardinality(TT_TableOfNumber(k)) <= MaxTTSize
        THEN translate_transitions_to_one_tape(TT_TableOfNumber(k))
        ELSE {}]

(* translate_transitions_to_one_tape(TT), for a table of the model. *)
OT_of(TT) == OT_ByNumber[TT_NumberUpTo(TT, Len(TT_TransitionSeq))]

(* The largest symbol a translation of the model uses: its SEPARATOR. *)
OT_MaxSymbol ==
    4 * (SetMax(UNION {{t[2], t[3], t[5], t[6]} : t \in TT_TransitionUniverse} \cup {BLANK}) + 1)

(* The interpreter keeps a table as a dictionary keyed by state and        *)
(* letter: the translations of the model by the letter they read, computed *)
(* once.                                                                   *)
OT_ByNumberAndLetter ==
    [k \in 0..(2^Len(TT_TransitionSeq) - 1) |->
        [let \in 0..OT_MaxSymbol |-> {t \in OT_ByNumber[k] : t[2] = let}]]

(* The transitions of translate_transitions_to_one_tape(TT) that read let. *)
OT_reading(TT, let) ==
    IF let \in 0..OT_MaxSymbol
    THEN OT_ByNumberAndLetter[TT_NumberUpTo(TT, Len(TT_TransitionSeq))][let]
    ELSE {}

(* get_next_configurations of the machine of the translation of TT. *)
OT_next_configurations(TT, conf) ==
    get_next_configurations(OT_reading(TT, conf[2][conf[3] + 1]), conf)

(* The name is one state() gives for this phase name and some keys. *)
HasPhase(name, phase) ==
    /\ Len(name) > Len(phase)
    /\ SubSeq(name, 1, Len(phase) + 1) = phase \o "|"

ReadLet2_states(TT) ==
    {state("ReadLet2", <<<<"org_state", org_state>>, <<"let1", Str(let1)>>>>) :
        org_state \in get_states(TT), let1 \in get_alphabet(TT)}

(* The entry <<target_state, tlet1, tlet2, dir1, dir2>> that line 120 put  *)
(* in the name of an executeSecondHeadAction state.                        *)
executeSecondHeadAction_kwards(TT, name) ==
    CHOOSE e \in get_states(TT) \X get_alphabet(TT) \X get_alphabet(TT) \X DIRS \X DIRS :
        name = state("executeSecondHeadAction",
                     <<<<"org_state", e[1]>>, <<"tlet1", Str(e[2])>>,
                       <<"tlet2", Str(e[3])>>, <<"dir1", e[4]>>, <<"dir2", e[5]>>>>)

(* The translated machine is about to choose a two-tape transition: it is  *)
(* in a ReadLet2 state on the double-underlined cell (line 120).           *)
AtChoice ==
    /\ ot_conf[2][ot_conf[3] + 1] \in double_underlined_alphabet_of(TT_transitions)
    /\ HasPhase(ot_conf[1], "ReadLet2")

InitT ==
    /\ TT_transitions \in TT_Tables
    /\ tape \in Words
    /\ ot_conf = initial_configuration(tape)
    /\ macro = 0
    /\ chosen = <<>>
    /\ phase_conf = <<>>
    /\ transitions = {}
    /\ max_steps = 1
    /\ current_configurations = {}
    /\ next_configurations = {}
    /\ history = {}
    /\ steps = 1
    /\ pc = "translated"
    /\ result = FALSE
    /\ expanded = {}
    /\ expanded_twice = FALSE

(* One transition of the translated machine that chooses the two-tape      *)
(* transition to simulate.                                                 *)
TChoose ==
    /\ ~is_conf_terminal(ot_conf)
    /\ AtChoice
    /\ macro < MaxMacro
    /\ ot_conf' \in OT_next_configurations(TT_transitions, ot_conf)
    /\ macro' = macro + 1
    /\ chosen' = executeSecondHeadAction_kwards(TT_transitions, ot_conf'[1])
    /\ phase_conf' = ot_conf'
    /\ UNCHANGED <<tape, TT_transitions>>
    /\ UNCHANGED ivars

(* Any other transition of the translated machine. *)
TStep ==
    /\ ~is_conf_terminal(ot_conf)
    /\ ~AtChoice
    /\ ot_conf' \in OT_next_configurations(TT_transitions, ot_conf)
    /\ phase_conf' = IF HasPhase(ot_conf'[1], "executeFirstHeadAction")
                     THEN ot_conf'
                     ELSE phase_conf
    /\ UNCHANGED <<tape, TT_transitions, macro, chosen>>
    /\ UNCHANGED ivars

NextT ==
    \/ TChoose
    \/ TStep

SpecT == InitT /\ [][NextT]_vars

(* A run of the machine goes on while a transition applies. *)
FairSpecT == SpecT /\ WF_vars(NextT)

-----------------------------------------------------------------------------
(* What a two-tape machine can possibly do, whatever the positions of its  *)
(* heads: the states it may enter and the letters its tapes may hold, as   *)
(* <<states, letters of tape 1, letters of tape 2>>.  A transition is      *)
(* taken only from a state and on letters of these sets, so a machine      *)
(* whose set of states lacks accept has no accepting run.                  *)
RECURSIVE TT_MayReach(_, _)
TT_MayReach(TT, sets) ==
    LET fire == {t \in TT : /\ t[1] \in sets[1] \ {ACCEPT_STATE, REJECT_STATE}
                            /\ t[2] \in sets[2]
                            /\ t[3] \in sets[3]}
        more == <<sets[1] \cup {t[4] : t \in fire},
                  sets[2] \cup {t[5] : t \in fire},
                  sets[3] \cup {t[6] : t \in fire}>>
    IN  IF more = sets THEN sets ELSE TT_MayReach(TT, more)

TT_MayAccept(TT, word) ==
    ACCEPT_STATE \in
        TT_MayReach(TT, <<{START_STATE},
                          {BLANK} \cup {word[i] : i \in 1..Len(word)},
                          {BLANK}>>)[1]

(* C1: the two-tape machine of T2 accepts w if and only if the machine of  *)
(* translate_transitions_to_one_tape(T2) accepts w.  Stated as what a      *)
(* finite run can refute: whenever the translated machine is in accept,    *)
(* the two-tape machine has an accepting run (so accept is among the       *)
(* states it may enter).                                                   *)
C1_TranslatedAcceptsOnlyIfTwoTapeAccepts ==
    (pc = "translated" /\ ot_conf[1] = ACCEPT_STATE)
        => TT_MayAccept(TT_transitions, tape)

-----------------------------------------------------------------------------
(* The tape of the translated machine between two simulated steps:         *)
(* tape 1 (plain letters, one underlined), SEPARATOR, tape 2 (plain        *)
(* letters, one double underlined), SEPARATOR, then only BLANKs.           *)
Canonical(tp, TT) ==
    LET plain == get_alphabet(TT)
        under == underlined_alphabet_of(TT)
        dunder == double_underlined_alphabet_of(TT)
        sep == SEPARATOR_of(TT)
    IN  \E i \in 1..Len(tp) : \E j \in 1..Len(tp) :
            /\ i < j /\ tp[i] = sep /\ tp[j] = sep
            /\ i >= 2
            /\ \A k \in 1..(i - 1) : tp[k] \in plain \cup under
            /\ Cardinality({k \in 1..(i - 1) : tp[k] \in under}) = 1
            /\ j >= i + 2
            /\ \A k \in (i + 1)..(j - 1) : tp[k] \in plain \cup dunder
            /\ Cardinality({k \in (i + 1)..(j - 1) : tp[k] \in dunder}) = 1
            /\ \A k \in (j + 1)..Len(tp) : tp[k] = BLANK

(* The translated machine is between two simulated steps: in a             *)
(* checkIfTerminalState state, or in a ReadLet2 state it has just entered  *)
(* from the underlined cell, which is then the cell left of the head.      *)
AtCheckpoint ==
    \/ HasPhase(ot_conf[1], "checkIfTerminalState")
    \/ /\ HasPhase(ot_conf[1], "ReadLet2")
       /\ ot_conf[3] >= 1
       /\ ot_conf[2][ot_conf[3]] \in underlined_alphabet_of(TT_transitions)

WordInAlphabet == \A i \in 1..Len(tape) : tape[i] \in get_alphabet(TT_transitions)

(* C10: for every T2 and every input word whose letters occur in T2, the   *)
(* tape of the translated machine is canonical in every reachable          *)
(* configuration that is between two simulated steps.                      *)
C10_TapeLayout ==
    (pc = "translated" /\ WordInAlphabet /\ AtCheckpoint)
        => Canonical(ot_conf[2], TT_transitions)

C10_Witness ==
    /\ pc = "translated"
    /\ WordInAlphabet
    /\ HasPhase(ot_conf[1], "checkIfTerminalState")
    /\ macro >= 2
    /\ Len(ot_conf[2]) >= Len(tape) + 5
    /\ Len(tape) >= 1

-----------------------------------------------------------------------------
(* The shape state() gives a name: a phase name, then zero or more         *)
(* "|key:value" parts with a non-empty key and a non-empty value.          *)
IsGeneratedName(name) ==
    LET n == Len(name)
        bars == {i \in 1..n : SubSeq(name, i, i) = "|"}
        colons == {i \in 1..n : SubSeq(name, i, i) = ":"}
        part_end(b) == IF \E c \in bars : c > b
                       THEN (CHOOSE c \in bars : c > b /\ \A d \in bars : d > b => c <= d) - 1
                       ELSE n
    IN  /\ n >= 1
        /\ 1 \notin bars
        /\ \A k \in colons : \E b \in bars : b < k
        /\ \A b \in bars :
               LET inside == {k \in colons : b < k /\ k <= part_end(b)}
               IN  /\ Cardinality(inside) = 1
                   /\ \A k \in inside : b + 1 < k /\ k < part_end(b)

IsStateName(name) ==
    \/ name \in {START_STATE, ACCEPT_STATE, REJECT_STATE}
    \/ IsGeneratedName(name)

(* The symbols of the translated machine: the plain band, the underlined   *)
(* band, the double-underlined band and SEPARATOR.                         *)
Symbols(TT) ==
    get_alphabet(TT)
        \cup {underline(a, max_val_of(TT)) : a \in get_alphabet(TT)}
        \cup {double_underline(a, max_val_of(TT)) : a \in get_alphabet(TT)}
        \cup {SEPARATOR_of(TT)}

BandsDisjoint(TT) ==
    LET plain == get_alphabet(TT)
        under == {underline(a, max_val_of(TT)) : a \in plain}
        dunder == {double_underline(a, max_val_of(TT)) : a \in plain}
    IN  /\ plain \cap under = {}
        /\ plain \cap dunder = {}
        /\ under \cap dunder = {}
        /\ SEPARATOR_of(TT) \notin plain \cup under \cup dunder

(* The names that are not state names, among the names of all the         *)
(* translations of the model.                                              *)
OT_AllNames ==
    UNION {{t[1] : t \in OT_ByNumber[k]} \cup {t[3] : t \in OT_ByNumber[k]} :
               k \in 0..(2^Len(TT_TransitionSeq) - 1)}

OT_BadNames == {name \in OT_AllNames : ~IsStateName(name)}

WellFormed(TT, OT) ==
    LET symbols == Symbols(TT)
    IN  /\ BandsDisjoint(TT)
        /\ \A t \in OT :
               /\ Len(t) = 5
               /\ t[1] \notin OT_BadNames
               /\ t[3] \notin OT_BadNames
               /\ t[5] \in {L, R, S}
               /\ t[2] \in symbols
               /\ t[4] \in symbols

(* WellFormed of the translation of every two-tape table of the model,     *)
(* computed once.                                                          *)
WellFormed_ByNumber ==
    [k \in 0..(2^Len(TT_TransitionSeq) - 1) |->
        WellFormed(TT_TableOfNumber(k), OT_ByNumber[k])]

(* C11: every tuple translate_transitions_to_one_tape returns has five     *)
(* fields, a direction in {L, R, S}, a read and a written symbol that are  *)
(* plain, underlined, double underlined or SEPARATOR, these four kinds     *)
(* being pairwise disjoint, and state names that are start, accept, reject *)
(* or of the generated shape phase|key:value|...                           *)
C11_OutputWellFormed ==
    pc = "translated"
        => WellFormed_ByNumber[TT_NumberUpTo(TT_transitions, Len(TT_TransitionSeq))]

C11_Witness ==
    /\ pc = "translated"
    /\ Cardinality(TT_transitions) >= 2
    /\ chosen # <<>>
    /\ ot_conf[1] = state("executeSecondHeadAction",
                          <<<<"org_state", chosen[1]>>, <<"tlet1", Str(chosen[2])>>,
                            <<"tlet2", Str(chosen[3])>>, <<"dir1", chosen[4]>>,
                            <<"dir2", chosen[5]>>>>)
    /\ \E t \in OT_of(TT_transitions) :
           t[1] = ot_conf[1] /\ t[4] \in get_alphabet(TT_transitions)

-----------------------------------------------------------------------------
(* The head actions of a simulated step.  phase_conf is the configuration  *)
(* in which the action began, its head on the marked cell, and chosen is   *)
(* the entry <<target_state, tlet1, tlet2, dir1, dir2>> being simulated.   *)

(* The second head action is over: the machine walks back to head 1.       *)
SecondHeadActionDone ==
    /\ pc = "translated"
    /\ chosen # <<>>
    /\ HasPhase(ot_conf[1], "goToFirstHead")

(* The first head action is over: the machine checks for a terminal state. *)
FirstHeadActionDone ==
    /\ pc = "translated"
    /\ chosen # <<>>
    /\ HasPhase(ot_conf[1], "checkIfTerminalState")

(* The 1-based index of the cell the head action began on. *)
phase_cell == phase_conf[3] + 1

(* C12: when the simulated entry has dir2 = R and the cell right of the    *)
(* double-underlined cell is a plain cell holding c, then after the second *)
(* head action the old cell holds plain tlet2 and the new cell holds       *)
(* double_underline(c).                                                    *)
C12_RightOntoPlainCellKeepsContent ==
    (/\ SecondHeadActionDone
     /\ chosen[5] = R
     /\ phase_cell + 1 <= Len(phase_conf[2])
     /\ phase_conf[2][phase_cell + 1] \in get_alphabet(TT_transitions))
        => /\ ot_conf[2][phase_cell] = chosen[3]
           /\ ot_conf[2][phase_cell + 1] =
                  double_underline(phase_conf[2][phase_cell + 1], max_val_of(TT_transitions))

(* C13: when the simulated entry has dir1 = L and the underlined cell is   *)
(* not at tape position 0, then after the first head action the cell head  *)
(* 1 was on holds plain tlet1 and the cell to its left holds underline(c), *)
(* c being the plain symbol that cell held.                                *)
C13_LeftAwayFromLeftEndWritesTlet1 ==
    (/\ FirstHeadActionDone
     /\ chosen[4] = L
     /\ phase_conf[3] >= 1)
        => /\ ot_conf[2][phase_cell] = chosen[2]
           /\ ot_conf[2][phase_cell - 1] =
                  underline(phase_conf[2][phase_cell - 1], max_val_of(TT_transitions))

(* The index of the first SEPARATOR of a tape at or after cell k. *)
SeparatorFrom(tp, TT, k) ==
    CHOOSE j \in k..Len(tp) :
        /\ tp[j] = SEPARATOR_of(TT)
        /\ \A i \in k..(j - 1) : tp[i] # SEPARATOR_of(TT)

(* The first head is to move right onto the first SEPARATOR. *)
Tape1Grows ==
    /\ FirstHeadActionDone
    /\ chosen[4] = R
    /\ phase_cell + 1 <= Len(phase_conf[2])
    /\ phase_conf[2][phase_cell + 1] = SEPARATOR_of(TT_transitions)

(* C14: when dir1 = R and the cell right of the underlined cell is the     *)
(* first SEPARATOR, then after the first head action the old head cell     *)
(* holds plain tlet1, the former SEPARATOR cell holds underline(BLANK), a  *)
(* SEPARATOR follows it, the tape-2 region and the second SEPARATOR sit    *)
(* one cell further right, and the machine is in checkIfTerminalState on   *)
(* the new underlined cell.                                                *)
C14_Tape1Growth ==
    Tape1Grows =>
        LET old == phase_conf[2]
            new == ot_conf[2]
            p == phase_cell
            j == SeparatorFrom(old, TT_transitions, p + 2)
        IN  /\ new[p] = chosen[2]
            /\ new[p + 1] = underline(BLANK, max_val_of(TT_transitions))
            /\ new[p + 2] = SEPARATOR_of(TT_transitions)
            /\ Len(new) >= j + 1
            /\ \A k \in (p + 2)..j : new[k + 1] = old[k]
            /\ ot_conf[1] = state("checkIfTerminalState", <<<<"org_state", chosen[1]>>>>)
            /\ ot_conf[3] + 1 = p + 1

C14_Witness ==
    /\ Tape1Grows
    /\ macro >= 2
    /\ SeparatorFrom(phase_conf[2], TT_transitions, phase_cell + 2) >= phase_cell + 4

(* The first head is to move left from tape position 0. *)
LeftAtLeftEnd ==
    /\ FirstHeadActionDone
    /\ chosen[4] = L
    /\ phase_conf[3] = 0

(* C15: when dir1 = L and the underlined cell is at tape position 0, then  *)
(* after the first head action cell 0 holds underline(tlet1), it is the    *)
(* only underlined cell, no other cell changed, and the machine is in      *)
(* checkIfTerminalState with its head on cell 0.                           *)
C15_LeftAtLeftEnd ==
    LeftAtLeftEnd =>
        LET old == phase_conf[2]
            new == ot_conf[2]
        IN  /\ new[1] = underline(chosen[2], max_val_of(TT_transitions))
            /\ {k \in 1..Len(new) : new[k] \in underlined_alphabet_of(TT_transitions)} = {1}
            /\ Len(new) = Len(old)
            /\ \A k \in 2..Len(old) : new[k] = old[k]
            /\ ot_conf[1] = state("checkIfTerminalState", <<<<"org_state", chosen[1]>>>>)
            /\ ot_conf[3] = 0

C15_Witness ==
    /\ LeftAtLeftEnd
    /\ phase_conf[2][1] # underline(chosen[2], max_val_of(TT_transitions))
    /\ Len(phase_conf[2]) >= 5

(* The second head is to move right onto the second SEPARATOR. *)
Tape2Grows ==
    /\ SecondHeadActionDone
    /\ chosen[5] = R
    /\ phase_cell + 1 <= Len(phase_conf[2])
    /\ phase_conf[2][phase_cell + 1] = SEPARATOR_of(TT_transitions)

(* C16: when dir2 = R and the cell right of the double-underlined cell is  *)
(* the second SEPARATOR, then after the second head action the old cell    *)
(* holds plain tlet2, the former SEPARATOR cell holds                      *)
(* double_underline(BLANK), the cell right of it, a trailing BLANK before, *)
(* holds SEPARATOR, the tape-1 region is unchanged, and the machine is in  *)
(* goToFirstHead carrying the target state, tlet1 and dir1.                *)
C16_Tape2Growth ==
    Tape2Grows =>
        LET old == phase_conf[2]
            new == ot_conf[2]
            p == phase_cell
            i == SeparatorFrom(old, TT_transitions, 1)
        IN  /\ new[p] = chosen[3]
            /\ new[p + 1] = double_underline(BLANK, max_val_of(TT_transitions))
            /\ Len(new) >= p + 2
            /\ new[p + 2] = SEPARATOR_of(TT_transitions)
            /\ p + 2 <= Len(old) => old[p + 2] = BLANK
            /\ i < p
            /\ \A k \in 1..i : new[k] = old[k]
            /\ ot_conf[1] = state("goToFirstHead",
                                  <<<<"org_state", chosen[1]>>, <<"tlet1", Str(chosen[2])>>,
                                    <<"dir1", chosen[4]>>>>)

C16_Witness ==
    /\ Tape2Grows
    /\ macro >= 2
    /\ phase_conf[2][phase_cell - 1] # SEPARATOR_of(TT_transitions)
    /\ phase_conf[2][phase_cell] # double_underline(chosen[3], max_val_of(TT_transitions))

(* The second head is to move left from the leftmost cell of tape 2. *)
LeftAtLeftEndOfTape2 ==
    /\ SecondHeadActionDone
    /\ chosen[5] = L
    /\ phase_cell >= 2
    /\ phase_conf[2][phase_cell - 1] = SEPARATOR_of(TT_transitions)

(* C17: when dir2 = L and the cell left of the double-underlined cell is   *)
(* the first SEPARATOR, then after the second head action that SEPARATOR   *)
(* is unchanged, the same cell as before is the double-underlined one and  *)
(* holds double_underline(tlet2), and no other cell changed.               *)
C17_LeftAtLeftEndOfTape2 ==
    LeftAtLeftEndOfTape2 =>
        LET old == phase_conf[2]
            new == ot_conf[2]
            p == phase_cell
        IN  /\ new[p - 1] = SEPARATOR_of(TT_transitions)
            /\ new[p] = double_underline(chosen[3], max_val_of(TT_transitions))
            /\ {k \in 1..Len(new) :
                    new[k] \in double_underlined_alphabet_of(TT_transitions)} = {p}
            /\ Len(new) = Len(old)
            /\ \A k \in 1..Len(old) : k # p => new[k] = old[k]

C17_Witness ==
    /\ LeftAtLeftEndOfTape2
    /\ phase_conf[2][phase_cell] # double_underline(chosen[3], max_val_of(TT_transitions))
    /\ Len(phase_conf[2]) >= 5

-----------------------------------------------------------------------------
(* The transitions of OT that leave ReadLet2|org_state:q|let1:a reading    *)
(* double_underline(b) are those of the entries of TT under (q, a, b), one *)
(* for each entry.                                                         *)
EmbedsKey(TT, OT, q, a, b) ==
    LET from == state("ReadLet2", <<<<"org_state", q>>, <<"let1", Str(a)>>>>)
        read == double_underline(b, max_val_of(TT))
        leaving == {t \in OT : t[1] = from /\ t[2] = read}
        entries == TT_get(TT, q, a, b)
        of_entry(e) ==
            <<from, read,
              state("executeSecondHeadAction",
                    <<<<"org_state", e[1]>>, <<"tlet1", Str(e[2])>>, <<"tlet2", Str(e[3])>>,
                      <<"dir1", e[4]>>, <<"dir2", e[5]>>>>),
              read, S>>
    IN  /\ leaving = {of_entry(e) : e \in entries}
        /\ Cardinality(leaving) = Cardinality(entries)

EmbedsTable(TT, OT) ==
    LET marked == double_underlined_alphabet_of(TT)
        reading == ReadLet2_states(TT)
        on_marked == {t \in OT : t[2] \in marked /\ t[1] \in reading}
    IN  /\ \A q \in get_states(TT) : \A a \in get_alphabet(TT) : \A b \in get_alphabet(TT) :
               EmbedsKey(TT, on_marked, q, a, b)

(* EmbedsTable of every two-tape table of the model, computed once. *)
EmbedsTable_ByNumber ==
    [k \in 0..(2^Len(TT_TransitionSeq) - 1) |->
        EmbedsTable(TT_TableOfNumber(k), OT_ByNumber[k])]

(* C18: for every state q and symbols a, b, the emitted transitions that   *)
(* leave ReadLet2|org_state:q|let1:a on double_underline(b) correspond one *)
(* to one to the entries of T2 under the key (q, a, b): each entry gives   *)
(* one transition to executeSecondHeadAction carrying the entry, leaving   *)
(* the cell unchanged with direction S, and a key that is not in T2 gives  *)
(* none.                                                                   *)
C18_Phase3EmbedsT2 ==
    pc = "translated"
        => EmbedsTable_ByNumber[TT_NumberUpTo(TT_transitions, Len(TT_TransitionSeq))]

C18_Witness ==
    /\ pc = "translated"
    /\ chosen # <<>>
    /\ phase_conf = ot_conf
    /\ macro >= 2
    /\ \E k \in get_states(TT_transitions) \X get_alphabet(TT_transitions)
                    \X get_alphabet(TT_transitions) :
           /\ chosen \in TT_get(TT_transitions, k[1], k[2], k[3])
           /\ Cardinality(TT_get(TT_transitions, k[1], k[2], k[3])) >= 2

-----------------------------------------------------------------------------
(* The tape the initialization is to leave for the input word. *)
InitializedTape(word, TT) ==
    LET first == IF word = <<>> THEN BLANK ELSE word[1]
        rest == IF word = <<>> THEN <<>> ELSE Tail(word)
    IN  <<underline(first, max_val_of(TT))>> \o rest
            \o <<SEPARATOR_of(TT), double_underline(BLANK, max_val_of(TT)), SEPARATOR_of(TT)>>

(* The configuration in which the initialization hands over: ReadLet2 for  *)
(* the start state, just entered from the underlined cell at position 0.   *)
InitializedConfiguration(word, TT) ==
    <<state("ReadLet2",
            <<<<"org_state", START_STATE>>,
              <<"let1", Str(IF word = <<>> THEN BLANK ELSE word[1])>>>>),
      InitializedTape(word, TT),
      1>>

(* The machine is still initializing its tape. *)
Initializing ==
    /\ pc = "translated"
    /\ macro = 0
    /\ ~HasPhase(ot_conf[1], "ReadLet2")

(* C19: for every input word whose letters occur in T2, the translated     *)
(* machine started in start has exactly one run up to the first ReadLet2   *)
(* state, and enters it from the underlined cell at position 0 with        *)
(* org_state = start, let1 = the first letter (BLANK for the empty word)   *)
(* and the tape underline(w1) w2 ... wn SEPARATOR double_underline(BLANK)  *)
(* SEPARATOR.                                                              *)
C19_Phase1Result ==
    /\ []((Initializing /\ WordInAlphabet)
              => Cardinality(OT_next_configurations(TT_transitions, ot_conf)) = 1)
    /\ []((pc = "translated" /\ macro = 0 /\ WordInAlphabet
              /\ HasPhase(ot_conf[1], "ReadLet2") /\ ot_conf[3] = 1)
              => ot_conf = InitializedConfiguration(tape, TT_transitions))
    /\ <>(WordInAlphabet => ot_conf = InitializedConfiguration(tape, TT_transitions))

C19_Witness ==
    /\ pc = "translated"
    /\ macro = 0
    /\ WordInAlphabet
    /\ Len(tape) = 2
    /\ ot_conf = InitializedConfiguration(tape, TT_transitions)

-----------------------------------------------------------------------------
(* The state a checkIfTerminalState name carries. *)
checkIfTerminalState_org_state(TT, name) ==
    CHOOSE q \in get_states(TT) :
        name = state("checkIfTerminalState", <<<<"org_state", q>>>>)

(* The only transitions of OT into the bare states accept and reject are   *)
(* those of the terminal check: from checkIfTerminalState for that state,  *)
(* on an underlined cell, which they leave unchanged with direction S.     *)
OnlyTerminalCheckHalts(TT, OT) ==
    LET under == underlined_alphabet_of(TT)
    IN  \A t \in OT :
            t[3] \in {ACCEPT_STATE, REJECT_STATE}
                => /\ t[1] = state("checkIfTerminalState", <<<<"org_state", t[3]>>>>)
                   /\ t[2] \in under
                   /\ t[4] = t[2]
                   /\ t[5] = S

(* OnlyTerminalCheckHalts of every two-tape table of the model, computed   *)
(* once.                                                                   *)
OnlyTerminalCheckHalts_ByNumber ==
    [k \in 0..(2^Len(TT_TransitionSeq) - 1) |->
        OnlyTerminalCheckHalts(TT_TableOfNumber(k), OT_ByNumber[k])]

(* The translated machine is in a checkIfTerminalState state on an         *)
(* underlined cell.                                                        *)
AtTerminalCheck ==
    /\ pc = "translated"
    /\ HasPhase(ot_conf[1], "checkIfTerminalState")
    /\ ot_conf[2][ot_conf[3] + 1] \in underlined_alphabet_of(TT_transitions)

(* C20: from checkIfTerminalState|org_state:q on an underlined cell, if q  *)
(* is accept or reject the only successor is the bare state q with tape    *)
(* and head unchanged, otherwise the only successor is                     *)
(* ReadLet2|org_state:q|let1:a, a the plain symbol of the underlined cell, *)
(* with the tape unchanged and the head one cell to the right; no other    *)
(* transition of the translated machine goes to the bare accept or reject. *)
C20_TerminalCheck ==
    pc = "translated" =>
        /\ OnlyTerminalCheckHalts_ByNumber[TT_NumberUpTo(TT_transitions, Len(TT_TransitionSeq))]
        /\ AtTerminalCheck =>
               LET q == checkIfTerminalState_org_state(TT_transitions, ot_conf[1])
                   a == un_underline(ot_conf[2][ot_conf[3] + 1], max_val_of(TT_transitions))
                   successors == OT_next_configurations(TT_transitions, ot_conf)
               IN  IF q \in {ACCEPT_STATE, REJECT_STATE}
                   THEN successors = {<<q, ot_conf[2], ot_conf[3]>>}
                   ELSE successors =
                            {<<state("ReadLet2", <<<<"org_state", q>>, <<"let1", Str(a)>>>>),
                               ot_conf[2], ot_conf[3] + 1>>}

C20_Witness ==
    /\ AtTerminalCheck
    /\ macro >= 2
    /\ checkIfTerminalState_org_state(TT_transitions, ot_conf[1]) = ACCEPT_STATE
    /\ <<ACCEPT_STATE, ot_conf[2], ot_conf[3]>>
           \in OT_next_configurations(TT_transitions, ot_conf)

-----------------------------------------------------------------------------
(* What a transition <<target_state, target_letter, direction>> may do to  *)
(* the tape of conf: it writes its letter under the head, leaves the other *)
(* cells alone, and adds one BLANK cell exactly when it moves right from   *)
(* the last cell.                                                          *)
SuccessorFrame(conf, transition, successor) ==
    LET t == conf[2]
        h == conf[3] + 1
        new == successor[2]
        grows == transition[3] = R /\ h = Len(t)
    IN  /\ new[h] = transition[2]
        /\ \A i \in 1..Len(t) : i # h => new[i] = t[i]
        /\ Len(new) = IF grows THEN Len(t) + 1 ELSE Len(t)
        /\ grows => new[Len(new)] = BLANK

(* C21: every successor get_next_configurations computes has the written   *)
(* letter under the old head position and every other cell unchanged; its  *)
(* tape is as long as before, or one BLANK cell longer exactly when the     *)
(* direction is R and the head was on the last cell.  Hence a              *)
(* configuration reached after d transitions has a tape of at most         *)
(* len(w) + 1 + d cells.                                                   *)
C21_SuccessorFrame ==
    pc # "translated" =>
        /\ \A conf \in AllConfigurations :
               \A transition \in Lookup(transitions, conf[1], conf[2][conf[3] + 1]) :
                   /\ next_configuration(conf, transition)
                          \in get_next_configurations(transitions, conf)
                   /\ SuccessorFrame(conf, transition, next_configuration(conf, transition))
        /\ \A conf \in current_configurations \cup history :
               Len(conf[2]) <= Len(tape) + 1 + (steps - 1)
        /\ \A conf \in next_configurations : Len(conf[2]) <= Len(tape) + 1 + steps

C21_Witness ==
    /\ pc = "outer"
    /\ steps >= 3
    /\ \E conf \in current_configurations :
           /\ Len(conf[2]) = Len(tape) + steps
           /\ \E transition \in Lookup(transitions, conf[1], conf[2][conf[3] + 1]) :
                  transition[3] = R
    /\ \E conf \in current_configurations : Len(conf[2]) < Len(tape) + steps

-----------------------------------------------------------------------------
(* The table without its entries keyed on accept or reject. *)
WithoutTerminalKeys(table) ==
    {t \in table : t[1] \notin {ACCEPT_STATE, REJECT_STATE}}

(* C22: during run(), get_next_configurations is never called on a         *)
(* configuration whose state is accept or reject, so the entries of the    *)
(* table keyed on accept or reject are never looked up: every              *)
(* configuration run() holds is one the table without these entries        *)
(* reaches.                                                                *)
C22_TerminalsNeverExpanded ==
    pc # "translated" =>
        /\ \A conf \in expanded : conf[1] \notin {ACCEPT_STATE, REJECT_STATE}
        /\ AllConfigurations \cup history
               \subseteq ReachWithin(WithoutTerminalKeys(transitions), tape, steps)

C22_Witness ==
    /\ pc = "done"
    /\ expanded # {}
    /\ \E conf \in history :
           /\ conf[1] \in {ACCEPT_STATE, REJECT_STATE}
           /\ Lookup(transitions, conf[1], conf[2][conf[3] + 1]) # {}

-----------------------------------------------------------------------------
(* The values run() may return, over every order in which pop() may hand   *)
(* out the configurations of a layer (lines 92-104): the first new         *)
(* terminal configuration popped decides, and any new terminal             *)
(* configuration of the layer may be the first.                            *)
RECURSIVE run_layers(_, _, _, _, _)
run_layers(table, layer, seen, layer_steps, bound) ==
    IF layer = {} \/ layer_steps > bound
    THEN {FALSE}
    ELSE LET new == {conf \in layer : not_in_history(conf, seen)}
             terminal == {conf \in new : is_conf_terminal(conf)}
         IN  IF terminal # {}
             THEN {is_conf_accepting(conf) : conf \in terminal}
             ELSE run_layers(table,
                             UNION {get_next_configurations(table, conf) : conf \in new},
                             seen \cup new, layer_steps + 1, bound)

run_results(table, word, bound) ==
    run_layers(table, {initial_configuration(word)}, {}, 1, bound)

(* C23: the value run() returns is a function of the table, the input tape *)
(* and max_steps alone: it does not depend on the order in which the       *)
(* configurations of a layer are popped.                                   *)
C23_VerdictDeterministic ==
    pc = "done" => run_results(transitions, tape, max_steps) = {result}

-----------------------------------------------------------------------------
(* The 1-based index of the first letter of the word that occurs nowhere   *)
(* in TT.                                                                  *)
FirstForeignLetter(word, TT) ==
    CHOOSE i \in 1..Len(word) :
        /\ word[i] \notin get_alphabet(TT)
        /\ \A j \in 1..(i - 1) : word[j] \in get_alphabet(TT)

(* The translated machine is on the first foreign letter of its input,     *)
(* still in start or in the initializeFirstTape walk, with no transition   *)
(* to take.                                                                *)
StuckOnForeignLetter ==
    /\ pc = "translated"
    /\ ~WordInAlphabet
    /\ macro = 0
    /\ ot_conf[1] \in {START_STATE, state("initializeFirstTape", <<>>)}
    /\ ot_conf[3] + 1 = FirstForeignLetter(tape, TT_transitions)
    /\ OT_next_configurations(TT_transitions, ot_conf) = {}

(* C24: if the input word contains a letter that occurs nowhere in T2, the *)
(* translated machine stays in start or in the initializeFirstTape walk,   *)
(* never moves past the first such letter, has no transition when it reads *)
(* it, and so gets stuck there and never enters accept.                    *)
C24_ForeignLetterStuck ==
    /\ []((pc = "translated" /\ ~WordInAlphabet)
              => /\ ot_conf[1] \in {START_STATE, state("initializeFirstTape", <<>>)}
                 /\ ot_conf[1] # ACCEPT_STATE
                 /\ macro = 0
                 /\ ot_conf[3] + 1 <= FirstForeignLetter(tape, TT_transitions)
                 /\ ot_conf[3] + 1 = FirstForeignLetter(tape, TT_transitions)
                        => OT_next_configurations(TT_transitions, ot_conf) = {})
    /\ <>(WordInAlphabet \/ StuckOnForeignLetter)

C24_Witness ==
    /\ StuckOnForeignLetter
    /\ ot_conf[3] = 1
    /\ TT_AcceptsWithin(TT_transitions, tape, 1)

====
